---------------------------- MODULE Spec2Model ----------------------------
(***************************************************************************)
(* MoonTheif exoplanet explorer: the Explorer page (src/pages/Explorer.tsx) *)
(* with its UniverseViewer child (src/components/universe-viewer.tsx) and   *)
(* the PlanetInfoOverlay (src/components/planet-info-overlay.tsx).          *)
(*                                                                         *)
(* Conventions.                                                            *)
(*  - A JS string is a sequence of one-character strings; "" is << >>.      *)
(*  - A nullable value is a sequence of length 0 (null / undefined) or 1.   *)
(*  - koi_prad and the display radius are in hundredths (1.34 is 134).      *)
(*  - A position is kept symbolically: the angle is index/50 of 12*pi, so   *)
(*    angleIdx is the index; ring is the orbital radius in hundredths;      *)
(*    height is the value of (Math.random() - 0.5) * 150.                   *)
(*  - lastOp and prevSelected are history variables: the handler that ran  *)
(*    last with its argument (the planet id clicked, the string searched)  *)
(*    and the value of selectedPlanet before it ran.                       *)
(*  - The camera's vectors are symbolic: a point is a planet position with *)
(*    an offset along z, a vector in flight is an interpolation record.    *)
(*  - Starfield lengths are whole numbers of 1/8000 pixel.                  *)
(***************************************************************************)
EXTENDS Integers, Sequences, FiniteSets, TLC

VARIABLES
    nasaExoplanetsCache,  \* module-level cache, Explorer.tsx:71
    loadPc,               \* position of loadNASAData: "fetching" | "done"
    planetName,           \* useState, Explorer.tsx:76
    exoplanetData,        \* useState, Explorer.tsx:77
    isLoading,            \* useState, Explorer.tsx:78
    availablePlanets,     \* useState, Explorer.tsx:79
    universePlanets,      \* useState, Explorer.tsx:80
    selectedPlanet,       \* useState, Explorer.tsx:81
    viewMode,             \* useState, Explorer.tsx:82
    searchQuery,          \* useState, Explorer.tsx:83
    discoveredPlanets,    \* useState, Explorer.tsx:84
    lastToast,            \* title of the last toast() call, "" when none
    detailJobs,           \* generateExoplanet calls waiting on the 2 s timer
    uvSelectedPlanet,     \* UniverseViewer's own useState, universe-viewer.tsx:360
    mountId,              \* number of the Explorer instance now mounted
    pendingLoads,         \* mounts whose loadNASAData call awaits its fetch
    requestsIssued,       \* history: calls fetch(NASA_API_URL) made so far
    camera,               \* the 3D camera, the OrbitControls target and the
                          \* animateCamera callbacks waiting for a frame
    starfield,            \* StarfieldBackground: canvas size, stars, ticks
    lastOp,               \* history: the handler that ran last
    prevSelected          \* history: selectedPlanet before that handler ran

vars == <<nasaExoplanetsCache, loadPc, planetName, exoplanetData, isLoading,
          availablePlanets, universePlanets, selectedPlanet, viewMode,
          searchQuery, discoveredPlanets, lastToast, detailJobs,
          uvSelectedPlanet, mountId, pendingLoads, requestsIssued, camera,
          starfield, lastOp, prevSelected>>

\* The variables of the data load across mounts.
loadVars == <<mountId, pendingLoads, requestsIssued>>

\* The variables of the animated views, which the session, generation, detail
\* and load specifications hold fixed.
viewVars == <<camera, starfield>>

---------------------------------------------------------------------------
(* Bounds of the model *)

\* Longest record list a fetch returns in the session specification.
MaxPlanets == 2

\* Longest search string typed into the search box.
MaxQueryLen == 2

\* generateExoplanet calls that may be waiting on their timer at once.
MaxJobs == 1

\* Longest record list handed to the scene generator in SpecGen.
MaxGenLen == 52

\* Largest base temperature of a generated record list in SpecGen.
MaxBaseTemp == 11

\* Most mounts of the Explorer page in the load specification.
MaxMounts == 3

\* Most camera transitions started in the camera specification.
MaxTransitions == 2

\* The frames of the starfield a behaviour runs through.
MaxStarTicks == 230

\* The resize events of a behaviour.
MaxResizes == 1

(* Program constants *)

\* nasaData.slice(0, 50)
SliceLimit == 50

\* The divisor of the index in the placement angle, (index / 50) * Math.PI * 12.
AngleDivisor == 50

---------------------------------------------------------------------------
(* Values *)

None == << >>

Some(x) == << x >>

Min(a, b) == IF a < b THEN a ELSE b

Max(a, b) == IF a > b THEN a ELSE b

\* The characters names and queries are built from.
Alphabet == {"K", "k", "1"}

\* String.prototype.toLowerCase, one character.
LowerChar(c) == IF c = "K" THEN "k" ELSE c

\* String.prototype.toLowerCase.
toLowerCase(s) == [i \in 1..Len(s) |-> LowerChar(s[i])]

\* String.prototype.includes: sub occurs in s as a contiguous substring.
includes(s, sub) ==
    \E i \in 0..(Len(s) - Len(sub)) : SubSeq(s, i + 1, i + Len(sub)) = sub

\* String.prototype.trim is the identity on the alphabet (no whitespace).
trim(s) == s

\* Every string of length at most n.
Strings(n) == UNION {[1..k -> Alphabet] : k \in 0..n}


---------------------------------------------------------------------------
(* Source records (NASAExoplanetData) and the inputs the model draws *)

\* The three records the session's fetch results are built from.
PoolRecord(i) ==
    CASE i = 1 -> [kepoi_name |-> <<"K", "1">>, koi_prad |-> 134, koi_teq |-> 255]
      [] i = 2 -> [kepoi_name |-> <<"k", "1", "1">>, koi_prad |-> 20, koi_teq |-> 295]
      [] OTHER -> [kepoi_name |-> <<"1", "k">>, koi_prad |-> 350, koi_teq |-> 199]

\* Sequences of length n over 1..m without repetition.
InjectiveSeqs(m, n) ==
    {s \in [1..n -> 1..m] : \A i, j \in 1..n : i # j => s[i] # s[j]}

\* What response.json() may yield in the session specification: every list of
\* at most MaxPlanets pool records with pairwise distinct kepoi_name.
DataSets ==
    UNION {{[i \in 1..n |-> PoolRecord(s[i])] : s \in InjectiveSeqs(Min(MaxPlanets, 3), n)}
           : n \in 0..Min(MaxPlanets, 3)}

Digit == <<"0", "1", "2", "3", "4", "5", "6", "7", "8", "9">>

\* The i-th record of a generated list: a name unique to i, a radius that
\* falls below, inside and above the clamp interval, a temperature base + i.
GenRecord(i, base) ==
    [kepoi_name |-> <<"K", Digit[((i \div 10) % 10) + 1], Digit[(i % 10) + 1]>>,
     koi_prad   |-> (i * 37) % 400,
     koi_teq    |-> base * 50 + i - 1]

\* The record lists handed to the scene generator in SpecGen: every length up
\* to MaxGenLen, temperatures sweeping 0 .. 50 * MaxBaseTemp + MaxGenLen - 1.
GenInputs ==
    {[i \in 1..n |-> GenRecord(i, b)] : n \in 0..MaxGenLen, b \in 0..MaxBaseTemp}

\* Values of (Math.random() - 0.5) * 150, which lies in [-75, 75).
HeightValues == {-75, 74}

\* The draws of Math.random() of one generation pass over n records (the
\* model draws one value for the whole pass).
RandomHeights(n) == {[i \in 1..n |-> a] : a \in HeightValues}

---------------------------------------------------------------------------
(* Scene generation, Explorer.tsx *)

\* Mutant: the thresholds are inclusive.
getPlanetColor_Inclusive(temperature) ==
    IF temperature <= 200 THEN "blue"
    ELSE IF temperature <= 230 THEN "cyan"
    ELSE IF temperature <= 260 THEN "cyan"
    ELSE IF temperature <= 290 THEN "green"
    ELSE IF temperature <= 320 THEN "yellowgreen"
    ELSE IF temperature <= 350 THEN "yellow"
    ELSE IF temperature <= 400 THEN "orange"
    ELSE IF temperature <= 500 THEN "redorange"
    ELSE "red"

\* getPlanetColor
getPlanetColor(temperature) ==
    IF temperature < 200 THEN "blue"
    ELSE IF temperature < 230 THEN "cyan"
    ELSE IF temperature < 260 THEN "cyan"
    ELSE IF temperature < 290 THEN "green"
    ELSE IF temperature < 320 THEN "yellowgreen"
    ELSE IF temperature < 350 THEN "yellow"
    ELSE IF temperature < 400 THEN "orange"
    ELSE IF temperature < 500 THEN "redorange"
    ELSE "red"

\* Mutant: the id is the name without its last character (the planet suffix).
UniversePlanet_IdWithoutSuffix(nasaPlanet, index, height) ==
    [id          |-> SubSeq(nasaPlanet.kepoi_name, 1, Len(nasaPlanet.kepoi_name) - 1),
     name        |-> nasaPlanet.kepoi_name,
     position    |-> [angleIdx |-> index,
                      ring     |-> 11250 + (index % 7) * 9375,
                      height   |-> height],
     radius      |-> Max(50, Min(300, nasaPlanet.koi_prad)),
     color       |-> getPlanetColor(nasaPlanet.koi_teq),
     temperature |-> nasaPlanet.koi_teq]

\* Mutant: the ring index is taken modulo 8.
UniversePlanet_EightRings(nasaPlanet, index, height) ==
    [id          |-> nasaPlanet.kepoi_name,
     name        |-> nasaPlanet.kepoi_name,
     position    |-> [angleIdx |-> index,
                      ring     |-> 11250 + (index % 8) * 9375,
                      height   |-> height],
     radius      |-> Max(50, Min(300, nasaPlanet.koi_prad)),
     color       |-> getPlanetColor(nasaPlanet.koi_teq),
     temperature |-> nasaPlanet.koi_teq]

\* Mutant: the ring is drawn at random with the height.
UniversePlanet_RandomRing(nasaPlanet, index, height) ==
    [id          |-> nasaPlanet.kepoi_name,
     name        |-> nasaPlanet.kepoi_name,
     position    |-> [angleIdx |-> index,
                      ring     |-> 11250 + (IF height < 0 THEN 0 ELSE 6) * 9375,
                      height   |-> height],
     radius      |-> Max(50, Min(300, nasaPlanet.koi_prad)),
     color       |-> getPlanetColor(nasaPlanet.koi_teq),
     temperature |-> nasaPlanet.koi_teq]

\* Mutant: hotter planets sit on inner rings.
UniversePlanet_RingByTemperature(nasaPlanet, index, height) ==
    [id          |-> nasaPlanet.kepoi_name,
     name        |-> nasaPlanet.kepoi_name,
     position    |-> [angleIdx |-> index,
                      ring     |-> 11250 + (nasaPlanet.koi_teq % 7) * 9375,
                      height   |-> height],
     radius      |-> Max(50, Min(300, nasaPlanet.koi_prad)),
     color       |-> getPlanetColor(nasaPlanet.koi_teq),
     temperature |-> nasaPlanet.koi_teq]

\* Mutant: the two clamp limits are exchanged.
UniversePlanet_ClampSwapped(nasaPlanet, index, height) ==
    [id          |-> nasaPlanet.kepoi_name,
     name        |-> nasaPlanet.kepoi_name,
     position    |-> [angleIdx |-> index,
                      ring     |-> 11250 + (index % 7) * 9375,
                      height   |-> height],
     radius      |-> Min(50, Max(300, nasaPlanet.koi_prad)),
     color       |-> getPlanetColor(nasaPlanet.koi_teq),
     temperature |-> nasaPlanet.koi_teq]

\* The scene object of the record at 0-based index `index` (the map callback).
\* The stats list is display text only and is left out.
UniversePlanet(nasaPlanet, index, height) ==
    [id          |-> nasaPlanet.kepoi_name,
     name        |-> nasaPlanet.kepoi_name,
     position    |-> [angleIdx |-> index,
                      ring     |-> 11250 + (index % 7) * 9375,
                      height   |-> height],
     radius      |-> Max(50, Min(300, nasaPlanet.koi_prad)),
     color       |-> getPlanetColor(nasaPlanet.koi_teq),
     temperature |-> nasaPlanet.koi_teq]

\* The placement angle of a scene object, (index / 50) * Math.PI * 12, as the
\* fraction num / den of pi.
PlacementAngle(position) == [num |-> position.angleIdx * 12, den |-> AngleDivisor]

\* Mutant: the slice stops one record early.
LeadingRecords_OneShort(nasaData) ==
    SubSeq(nasaData, 1, Min(Len(nasaData), SliceLimit - 1))

\* nasaData.slice(0, 50)
LeadingRecords(nasaData) == SubSeq(nasaData, 1, Min(Len(nasaData), SliceLimit))

\* generateUniversePlanets: the list passed to setUniversePlanets.
generateUniversePlanets(nasaData, heights) ==
    [i \in 1..Len(LeadingRecords(nasaData)) |->
        UniversePlanet(LeadingRecords(nasaData)[i], i - 1, heights[i])]

---------------------------------------------------------------------------
(* Textures, universe-viewer.tsx and planet-viewer.tsx.  A texture is the pair
   of its family and its variation: planetIceBlue3 is
   [family |-> "ice-blue", variation |-> 3]. *)

\* char.charCodeAt(0) for the characters of the record names used here.
CharCode(c) ==
    CASE c = "K" -> 75
      [] c = "k" -> 107
      [] c = "0" -> 48
      [] c = "1" -> 49
      [] c = "2" -> 50
      [] c = "3" -> 51
      [] c = "4" -> 52
      [] c = "5" -> 53
      [] c = "6" -> 54
      [] c = "7" -> 55
      [] c = "8" -> 56
      [] c = "9" -> 57

\* planetId.split('').reduce((acc, char) => acc + char.charCodeAt(0), 0),
\* with the characters from position i on still to add.
RECURSIVE ReduceCharCodes(_, _, _)
ReduceCharCodes(planetId, i, acc) ==
    IF i > Len(planetId) THEN acc
    ELSE ReduceCharCodes(planetId, i + 1, acc + CharCode(planetId[i]))

\* Mutant: only the first character of the id is hashed.
IdHash_FirstCharOnly(planetId) ==
    IF Len(planetId) = 0 THEN 0 ELSE CharCode(planetId[1])

\* const hash = ...
IdHash(planetId) == ReduceCharCodes(planetId, 1, 0)

\* const variation = (hash % 5) + 1
TextureVariation(planetId) == (IdHash(planetId) % 5) + 1

\* The texture list chosen by the temperature tests of the universe view.
TextureFamily(temp) ==
    IF temp < 200 THEN "ice-blue"
    ELSE IF temp < 260 THEN "cyan-cold"
    ELSE IF temp < 290 THEN "green-temperate"
    ELSE IF temp < 350 THEN "yellow-warm"
    ELSE IF temp < 450 THEN "orange-hot"
    ELSE "red-scorching"

\* getTextureForTemperature of universe-viewer.tsx: textures[variation - 1].
getTextureForTemperature(temp, planetId) ==
    [family |-> TextureFamily(temp), variation |-> TextureVariation(planetId)]

\* The texture a scene object is drawn with in the universe view (textureUrl).
PlanetTexture(planetData) ==
    getTextureForTemperature(planetData.temperature, planetData.id)

\* getTextureForTemperature of planet-viewer.tsx: the first variation of the
\* family chosen by its own temperature tests.
PreviewTextureForTemperature(temp) ==
    IF temp < 200 THEN [family |-> "ice-blue", variation |-> 1]
    ELSE IF temp < 260 THEN [family |-> "cyan-cold", variation |-> 1]
    ELSE IF temp < 290 THEN [family |-> "green-temperate", variation |-> 1]
    ELSE IF temp < 350 THEN [family |-> "yellow-warm", variation |-> 1]
    ELSE IF temp < 450 THEN [family |-> "orange-hot", variation |-> 1]
    ELSE [family |-> "red-scorching", variation |-> 1]

\* The texture of the single-planet preview of a scene object: the overlay
\* passes planet.temperature, so the fallback from the color is not taken.
PreviewTexture(planetData) == PreviewTextureForTemperature(planetData.temperature)

---------------------------------------------------------------------------
(* Camera of the universe view, universe-viewer.tsx.  A vector is kept
   symbolically: a point is [base |-> p, dz |-> d], the scene position p moved
   by d hundredths along z, and [from |-> a, to |-> b, progress |-> k] is
   lerpVectors(a, b, k / 100).  OrbitControls.update() is taken to leave
   position and target as written: the camera stays between minDistance and
   maxDistance of the target on every path here. *)

\* The center of the scene as a position: ring 0, height 0.
Origin == [angleIdx |-> 0, ring |-> 0, height |-> 0]

\* camera={{ position: [0, 0, 50] }}, OrbitControls' target (0, 0, 0), and no
\* animateCamera callback waiting.  started and wrote are history: the number
\* of transitions started, and the target ids of the animateCamera calls that
\* wrote the camera in the last step, in the order they ran.
CameraAtMount ==
    [position |-> [base |-> Origin, dz |-> 5000],
     target   |-> [base |-> Origin, dz |-> 0],
     loops    |-> << >>,
     started  |-> 0,
     wrote    |-> << >>]

\* progress += 0.02, in hundredths.
ProgressStep == 2

\* if (progress >= 1), in hundredths: fifty additions of 0.02 give
\* 1.0000000000000004 in double arithmetic, forty-nine give 0.98.
ProgressDone == 100

\* Mutant: the camera distance has no floor.
CameraDistance_NoFloor(radius) == radius * 8

\* Math.max(10, targetPlanet.radius * 8), in hundredths.
CameraDistance(radius) == Max(1000, radius * 8)

\* lerpVectors(a, b, progress)
Lerp(a, b, k) == [from |-> a, to |-> b, progress |-> k]

\* Mutant: the transition starts from the camera's place at mount.
NewLoop_FromMount(cam, targetPlanet) ==
    [id             |-> targetPlanet.id,
     targetPosition |-> [base |-> targetPlanet.position, dz |-> 0],
     cameraTarget   |-> [base |-> targetPlanet.position,
                         dz   |-> CameraDistance(targetPlanet.radius)],
     startPosition  |-> CameraAtMount.position,
     startTarget    |-> CameraAtMount.target,
     progress       |-> 0]

\* The closure of the effect of CameraController: the two targets, the two
\* start vectors cloned from the camera as it is, and progress = 0.
NewLoop(cam, targetPlanet) ==
    [id             |-> targetPlanet.id,
     targetPosition |-> [base |-> targetPlanet.position, dz |-> 0],
     cameraTarget   |-> [base |-> targetPlanet.position,
                         dz   |-> CameraDistance(targetPlanet.radius)],
     startPosition  |-> cam.position,
     startTarget    |-> cam.target,
     progress       |-> 0]

\* One call of animateCamera of the closure `loop` on the camera `cam`: the
\* progress advances; at 1 the targets are copied and no frame is requested,
\* before that the vectors are interpolated and the call is queued again.
AnimateCamera(cam, loop) ==
    IF loop.progress + ProgressStep >= ProgressDone
    THEN [position |-> loop.cameraTarget,
          target   |-> loop.targetPosition,
          loops    |-> cam.loops,
          started  |-> cam.started,
          wrote    |-> Append(cam.wrote, loop.id)]
    ELSE [position |-> Lerp(loop.startPosition, loop.cameraTarget,
                            loop.progress + ProgressStep),
          target   |-> Lerp(loop.startTarget, loop.targetPosition,
                            loop.progress + ProgressStep),
          loops    |-> Append(cam.loops,
                              [loop EXCEPT !.progress = loop.progress + ProgressStep]),
          started  |-> cam.started,
          wrote    |-> Append(cam.wrote, loop.id)]

\* The effect of CameraController on a new targetPlanet: the closure is made
\* and animateCamera is called once, at once.
CameraEffect(cam, targetPlanet) ==
    AnimateCamera([cam EXCEPT !.started = cam.started + 1, !.wrote = << >>],
                  NewLoop(cam, targetPlanet))

\* The callbacks queued for a frame run in the order they were queued.
RECURSIVE RunCallbacks(_, _, _)
RunCallbacks(cam, queued, i) ==
    IF i > Len(queued) THEN cam
    ELSE RunCallbacks(AnimateCamera(cam, queued[i]), queued, i + 1)

\* The camera after one animation frame.
CameraAfterFrame(cam) ==
    RunCallbacks([cam EXCEPT !.loops = << >>, !.wrote = << >>], cam.loops, 1)

---------------------------------------------------------------------------
(* Starfield background, starfield-background.tsx *)

(* Lengths are whole numbers of 1/8000 pixel, the unit in which the velocities
   (Math.random() - 0.5) * 0.175 and (Math.random() - 0.5) * 0.0875 are whole
   for a Math.random() given in hundredths; the canvas size is in pixels. *)

\* The starfield of a specification that leaves it out: no canvas, no stars.
NoStarfield ==
    [width |-> 0, height |-> 0, ticks |-> 0, resizes |-> 0, wraps |-> {},
     stars |-> << >>]

\* Model units per pixel.
Unit == 8000

Px(n) == n * Unit

\* One star per 8000 square pixels of canvas.
StarDensity == 8000

\* The margin past the canvas edge, in pixels.
Margin == 10

\* The sizes the window takes, <<innerWidth, innerHeight>>.
WindowSizes == {<<200, 100>>, <<100, 80>>}

\* The values of Math.random() (hundredths) drawn for one star, in the order
\* of the calls.
StarDraws ==
    {[x |-> 0, y |-> 0, size |-> 0, brightness |-> 0, twinkleSpeed |-> 0,
      twinkleOffset |-> 0, velocityX |-> 0, velocityY |-> 0],
     [x |-> 99, y |-> 99, size |-> 99, brightness |-> 99, twinkleSpeed |-> 99,
      twinkleOffset |-> 99, velocityX |-> 99, velocityY |-> 99],
     [x |-> 99, y |-> 0, size |-> 50, brightness |-> 25, twinkleSpeed |-> 75,
      twinkleOffset |-> 50, velocityX |-> 0, velocityY |-> 99]}

\* Math.floor((canvas.width * canvas.height) / 8000)
NumStars(width, height) == (width * height) \div StarDensity

\* The star pushed by generateStars for one set of draws: size in hundredths
\* of a pixel, brightness in 1/10000, twinkleSpeed in 1/100000, twinkleOffset
\* in hundredths of a turn.
NewStar(d, width, height) ==
    [x |-> (d.x * Px(width)) \div 100,
     y |-> (d.y * Px(height)) \div 100,
     size |-> d.size * 2 + 50,
     brightness |-> d.brightness * 80 + 2000,
     twinkleSpeed |-> d.twinkleSpeed * 20 + 500,
     twinkleOffset |-> d.twinkleOffset,
     velocityX |-> ((d.velocityX - 50) * 175 * Unit) \div 100000,
     velocityY |-> ((d.velocityY - 50) * 875 * Unit) \div 1000000]

\* The mount effect: updateCanvasSize, then generateStars.
MountStarfield(size, draws) ==
    [width |-> size[1], height |-> size[2], ticks |-> 0, resizes |-> 0,
     wraps |-> {},
     stars |-> [i \in 1..NumStars(size[1], size[2]) |->
                  NewStar(draws[i], size[1], size[2])]]

\* Mutant: only the far edge wraps.
Wrap_UpperOnly(c, size) == IF c > Px(size + Margin) THEN Px(-Margin) ELSE c

\* The two tests on one coordinate, in the order of the code.
Wrap(c, size) ==
    LET a == IF c > Px(size + Margin) THEN Px(-Margin) ELSE c
    IN  IF a < Px(-Margin) THEN Px(size + Margin) ELSE a

\* The body of forEach for one star: move, then wrap.
MoveStar(star, width, height) ==
    [star EXCEPT !.x = Wrap(star.x + star.velocityX, width),
                 !.y = Wrap(star.y + star.velocityY, height)]

\* The edges a star crosses in this tick (history only).
WrapsOf(star, width, height) ==
    {w \in {"xHigh", "xLow", "yHigh", "yLow"} :
        \/ w = "xHigh" /\ star.x + star.velocityX > Px(width + Margin)
        \/ w = "xLow" /\ star.x + star.velocityX < Px(-Margin)
        \/ w = "yHigh" /\ star.y + star.velocityY > Px(height + Margin)
        \/ w = "yLow" /\ star.y + star.velocityY < Px(-Margin)}

\* One call of animate.
AnimateStars(sf) ==
    [sf EXCEPT !.ticks = @ + 1,
               !.wraps = @ \cup UNION {WrapsOf(sf.stars[i], sf.width, sf.height) :
                                         i \in 1..Len(sf.stars)},
               !.stars = [i \in 1..Len(sf.stars) |->
                            MoveStar(sf.stars[i], sf.width, sf.height)]]

\* updateCanvasSize on a resize event: the stars are kept.
UpdateCanvasSize(sf, size) ==
    [sf EXCEPT !.width = size[1], !.height = size[2], !.resizes = @ + 1]

---------------------------------------------------------------------------
(* Search and discovery helpers *)

\* Mutant: the comparison keeps the case of both strings.
NameMatches_CaseSensitive(p, query) == includes(p.name, query)

\* The predicate of both finds: p.name.toLowerCase().includes(query.toLowerCase())
NameMatches(p, query) == includes(toLowerCase(p.name), toLowerCase(query))

\* Array.prototype.find from index i on: the first element that satisfies the
\* predicate, None (undefined) when the scan runs off the end.
RECURSIVE FindFrom(_, _, _)
FindFrom(planets, query, i) ==
    IF i > Len(planets) THEN None
    ELSE IF NameMatches(planets[i], query) THEN Some(planets[i])
    ELSE FindFrom(planets, query, i + 1)

\* universePlanets.find(...) of handleSearch, planets.find(...) of UniverseViewer
FindPlanet(planets, query) == FindFrom(planets, query, 1)

\* highlightedPlanet of UniverseViewer: undefined for an empty search string.
HighlightedPlanet(planets, searchedPlanet) ==
    IF searchedPlanet # << >> THEN FindPlanet(planets, searchedPlanet) ELSE None

\* The effect on [highlightedPlanet]: it runs when the highlighted planet of
\* the new render differs from the one of the render before, and then sets
\* UniverseViewer's selectedPlanet if the new one is defined.
HighlightEffect(uvSel, oldHighlighted, newHighlighted) ==
    IF newHighlighted # oldHighlighted /\ newHighlighted # None
    THEN newHighlighted
    ELSE uvSel

\* Mutant: the copy made for rendering draws a new vertical offset.
WithDiscovery_NewHeight(planet, discovered) ==
    [id          |-> planet.id,
     name        |-> planet.name,
     position    |-> [angleIdx |-> planet.position.angleIdx,
                      ring     |-> planet.position.ring,
                      height   |-> 0],
     radius      |-> planet.radius,
     color       |-> planet.color,
     temperature |-> planet.temperature,
     discovered  |-> discovered]

\* One element of planetsWithDiscovery: { ...planet, discovered: ... }
WithDiscovery(planet, discovered) ==
    [id          |-> planet.id,
     name        |-> planet.name,
     position    |-> planet.position,
     radius      |-> planet.radius,
     color       |-> planet.color,
     temperature |-> planet.temperature,
     discovered  |-> discovered]

\* planetsWithDiscovery of UniverseViewer
PlanetsWithDiscovery ==
    [i \in 1..Len(universePlanets) |->
        WithDiscovery(universePlanets[i], universePlanets[i].id \in discoveredPlanets)]

\* Mutant: the new set is built without the previous members.
AddDiscovered_DropsPrev(prev, id) == {id}

\* Mutant: selecting toggles membership.
AddDiscovered_Toggle(prev, id) ==
    IF id \in prev THEN prev \ {id} ELSE prev \cup {id}

\* prev => new Set(prev).add(planet.id)
AddDiscovered(prev, id) == prev \cup {id}

---------------------------------------------------------------------------
(* The session: one mounted Explorer page *)

\* The state after construction and the mount effect: loadNASAData found the
\* cache empty and is waiting on fetch.
Init ==
    /\ nasaExoplanetsCache = None
    /\ loadPc = "fetching"
    /\ mountId = 1
    /\ pendingLoads = {1}
    /\ requestsIssued = 1
    /\ planetName = << >>
    /\ exoplanetData = None
    /\ isLoading = FALSE
    /\ availablePlanets = << >>
    /\ universePlanets = << >>
    /\ selectedPlanet = None
    /\ viewMode = "universe"
    /\ searchQuery = << >>
    /\ discoveredPlanets = {}
    /\ lastToast = ""
    /\ detailJobs = << >>
    /\ uvSelectedPlanet = None
    /\ lastOp = [op |-> "mount", arg |-> << >>]
    /\ prevSelected = None
    /\ camera = CameraAtMount
    /\ starfield = NoStarfield

\* The list setUniversePlanets receives from the effect on [availablePlanets]:
\* generation runs only for a non-empty record list.
UniverseAfterLoad(data, heights) ==
    IF Len(data) > 0 THEN generateUniversePlanets(data, heights) ELSE universePlanets

\* Mutant: the cache keeps the result of the first call that resolved.
CacheAfterResolve_FirstWins(data) ==
    IF nasaExoplanetsCache = None THEN Some(data) ELSE nasaExoplanetsCache

\* nasaExoplanetsCache = data
CacheAfterResolve(data) == Some(data)

\* loadNASAData after a successful fetch and decode, with the effect on
\* [availablePlanets] that follows the state update.
FetchOk(data, heights) ==
    /\ loadPc = "fetching"
    /\ loadPc' = "done"
    /\ pendingLoads' = pendingLoads \ {mountId}
    /\ nasaExoplanetsCache' = CacheAfterResolve(data)
    /\ availablePlanets' = data
    /\ universePlanets' = UniverseAfterLoad(data, heights)
    /\ uvSelectedPlanet' =
          IF viewMode = "universe"
          THEN HighlightEffect(uvSelectedPlanet,
                               HighlightedPlanet(universePlanets, searchQuery),
                               HighlightedPlanet(universePlanets', searchQuery))
          ELSE uvSelectedPlanet
    /\ lastOp' = [op |-> "fetchOk", arg |-> << >>]
    /\ prevSelected' = selectedPlanet
    /\ UNCHANGED <<planetName, exoplanetData, isLoading, selectedPlanet, viewMode,
                   searchQuery, discoveredPlanets, lastToast, detailJobs,
                   mountId, requestsIssued>>
    /\ UNCHANGED viewVars

\* Mutant: the failure is swallowed without a toast.
FetchFail_Silent ==
    /\ loadPc = "fetching"
    /\ loadPc' = "done"
    /\ pendingLoads' = pendingLoads \ {mountId}
    /\ lastOp' = [op |-> "fetchFail", arg |-> << >>]
    /\ prevSelected' = selectedPlanet
    /\ UNCHANGED <<nasaExoplanetsCache, planetName, exoplanetData, isLoading,
                   availablePlanets, universePlanets, selectedPlanet, viewMode,
                   searchQuery, discoveredPlanets, detailJobs, uvSelectedPlanet,
                   mountId, requestsIssued, lastToast>>
    /\ UNCHANGED viewVars

\* loadNASAData when fetch rejects, the status is not ok or json() throws.
FetchFail ==
    /\ loadPc = "fetching"
    /\ loadPc' = "done"
    /\ pendingLoads' = pendingLoads \ {mountId}
    /\ lastToast' = "Data Loading Error"
    /\ lastOp' = [op |-> "fetchFail", arg |-> << >>]
    /\ prevSelected' = selectedPlanet
    /\ UNCHANGED <<nasaExoplanetsCache, planetName, exoplanetData, isLoading,
                   availablePlanets, universePlanets, selectedPlanet, viewMode,
                   searchQuery, discoveredPlanets, detailJobs, uvSelectedPlanet,
                   mountId, requestsIssued>>
    /\ UNCHANGED viewVars

\* generateRandomPlanet (the shuffle button of the universe view); i is
\* Math.floor(Math.random() * universePlanets.length) + 1.
GenerateRandomPlanet(i) ==
    /\ viewMode = "universe"
    /\ Len(universePlanets) > 0
    /\ i \in 1..Len(universePlanets)
    /\ searchQuery' = universePlanets[i].name
    /\ planetName' = universePlanets[i].name
    /\ uvSelectedPlanet' =
          HighlightEffect(uvSelectedPlanet,
                          HighlightedPlanet(universePlanets, searchQuery),
                          HighlightedPlanet(universePlanets, searchQuery'))
    /\ lastOp' = [op |-> "randomize", arg |-> universePlanets[i].name]
    /\ prevSelected' = selectedPlanet
    /\ UNCHANGED loadVars
    /\ UNCHANGED viewVars
    /\ UNCHANGED <<nasaExoplanetsCache, loadPc, exoplanetData, isLoading,
                   availablePlanets, universePlanets, selectedPlanet, viewMode,
                   discoveredPlanets, lastToast, detailJobs>>

\* handlePlanetClick of UniverseViewer on the i-th rendered planet, which calls
\* handlePlanetSelect of Explorer: the state updates of the two components.
PlanetClicked(i) ==
    /\ viewMode = "universe"
    /\ i \in 1..Len(universePlanets)
    /\ uvSelectedPlanet' = Some(PlanetsWithDiscovery[i])
    /\ selectedPlanet' = Some(PlanetsWithDiscovery[i])
    /\ planetName' = PlanetsWithDiscovery[i].name
    /\ discoveredPlanets' = AddDiscovered(discoveredPlanets, PlanetsWithDiscovery[i].id)
    /\ lastOp' = [op |-> "click", arg |-> universePlanets[i].id]
    /\ prevSelected' = selectedPlanet
    /\ UNCHANGED loadVars
    /\ UNCHANGED <<nasaExoplanetsCache, loadPc, exoplanetData, isLoading,
                   availablePlanets, universePlanets, viewMode, searchQuery,
                   lastToast, detailJobs>>

\* The click in the session specification, where the camera is not animated.
HandlePlanetClick(i) == PlanetClicked(i) /\ UNCHANGED viewVars

\* foundPlanet of handleSearch; None also when the query is empty and the
\* find is not reached.
FoundPlanet(query) ==
    IF query # << >> THEN FindPlanet(universePlanets, query) ELSE None

\* Mutant: a search that finds nothing clears the selection.
SelectedAfterSearch_ClearsOnMiss(query) == FoundPlanet(query)

\* Mutant: a match found while another planet is selected closes the overlay
\* instead of replacing the selection.
SelectedAfterSearch_ClosesFirst(query) ==
    IF FoundPlanet(query) # None
    THEN IF selectedPlanet # None /\ selectedPlanet[1].id # FoundPlanet(query)[1].id
         THEN None
         ELSE FoundPlanet(query)
    ELSE selectedPlanet

\* What handleSearch leaves in selectedPlanet.
SelectedAfterSearch(query) ==
    IF FoundPlanet(query) # None THEN FoundPlanet(query) ELSE selectedPlanet

\* The search box's onChange: setSearchQuery, then handleSearch(query).
HandleSearch(query) ==
    /\ viewMode = "universe"
    /\ searchQuery' = query
    /\ selectedPlanet' = SelectedAfterSearch(query)
    /\ planetName' =
          IF FoundPlanet(query) # None THEN FoundPlanet(query)[1].name ELSE planetName
    /\ uvSelectedPlanet' =
          HighlightEffect(uvSelectedPlanet,
                          HighlightedPlanet(universePlanets, searchQuery),
                          HighlightedPlanet(universePlanets, query))
    /\ lastOp' = [op |-> "search", arg |-> query]
    /\ prevSelected' = selectedPlanet
    /\ UNCHANGED loadVars
    /\ UNCHANGED viewVars
    /\ UNCHANGED <<nasaExoplanetsCache, loadPc, exoplanetData, isLoading,
                   availablePlanets, universePlanets, viewMode, discoveredPlanets,
                   lastToast, detailJobs>>

\* Mutant: onClose leaves the selection in place.
CloseOverlay_KeepsSelection ==
    /\ viewMode = "universe"
    /\ selectedPlanet # None
    /\ lastOp' = [op |-> "close", arg |-> << >>]
    /\ prevSelected' = selectedPlanet
    /\ UNCHANGED loadVars
    /\ UNCHANGED viewVars
    /\ UNCHANGED <<nasaExoplanetsCache, loadPc, planetName, exoplanetData, isLoading,
                   availablePlanets, universePlanets, selectedPlanet, viewMode,
                   searchQuery, discoveredPlanets, lastToast, detailJobs,
                   uvSelectedPlanet>>

\* onClose of PlanetInfoOverlay (close button or backdrop): the overlay is
\* rendered in the universe view while a planet is selected.
CloseOverlay ==
    /\ viewMode = "universe"
    /\ selectedPlanet # None
    /\ selectedPlanet' = None
    /\ lastOp' = [op |-> "close", arg |-> << >>]
    /\ prevSelected' = selectedPlanet
    /\ UNCHANGED loadVars
    /\ UNCHANGED viewVars
    /\ UNCHANGED <<nasaExoplanetsCache, loadPc, planetName, exoplanetData, isLoading,
                   availablePlanets, universePlanets, viewMode, searchQuery,
                   discoveredPlanets, lastToast, detailJobs, uvSelectedPlanet>>

\* Mutant: entering the detailed view drops the selection.
SwitchToDetailedView_DropsSelection ==
    /\ viewMode = "universe"
    /\ selectedPlanet # None
    /\ Len(detailJobs) < MaxJobs
    /\ IF trim(planetName) = << >>
       THEN /\ lastToast' = "Planet Name Required"
            /\ UNCHANGED <<isLoading, detailJobs>>
       ELSE /\ isLoading' = TRUE
            /\ detailJobs' = Append(detailJobs, planetName)
            /\ UNCHANGED lastToast
    /\ viewMode' = "detailed"
    /\ selectedPlanet' = None
    /\ uvSelectedPlanet' = None
    /\ lastOp' = [op |-> "expand", arg |-> << >>]
    /\ prevSelected' = selectedPlanet
    /\ UNCHANGED loadVars
    /\ UNCHANGED viewVars
    /\ UNCHANGED <<nasaExoplanetsCache, loadPc, planetName, exoplanetData,
                   availablePlanets, universePlanets, searchQuery,
                   discoveredPlanets>>

\* switchToDetailedView (onExpand of the overlay): generateExoplanet up to its
\* await, then setViewMode('detailed'). The universe view, and with it
\* UniverseViewer and its state, is unmounted.
SwitchToDetailedView ==
    /\ viewMode = "universe"
    /\ selectedPlanet # None
    /\ Len(detailJobs) < MaxJobs
    /\ IF trim(planetName) = << >>
       THEN /\ lastToast' = "Planet Name Required"
            /\ UNCHANGED <<isLoading, detailJobs>>
       ELSE /\ isLoading' = TRUE
            /\ detailJobs' = Append(detailJobs, planetName)
            /\ UNCHANGED lastToast
    /\ viewMode' = "detailed"
    /\ uvSelectedPlanet' = None
    /\ lastOp' = [op |-> "expand", arg |-> << >>]
    /\ prevSelected' = selectedPlanet
    /\ UNCHANGED loadVars
    /\ UNCHANGED viewVars
    /\ UNCHANGED <<nasaExoplanetsCache, loadPc, planetName, exoplanetData,
                   availablePlanets, universePlanets, selectedPlanet, searchQuery,
                   discoveredPlanets>>

\* availablePlanets.find(...) of generateExoplanet: the first record whose
\* name contains the planet name or is contained in it, case-insensitively.
RECURSIVE FindRecordFrom(_, _, _)
FindRecordFrom(records, name, i) ==
    IF i > Len(records) THEN None
    ELSE IF \/ includes(toLowerCase(records[i].kepoi_name), toLowerCase(name))
            \/ includes(toLowerCase(name), toLowerCase(records[i].kepoi_name))
         THEN Some(records[i])
    ELSE FindRecordFrom(records, name, i + 1)

\* Mutant: the middle regime lists oxygen at 5 percent.
generateAtmosphereData_ThinOxygen(temperature) ==
    IF temperature < 220
    THEN << [component |-> "N2", percentage |-> 45], [component |-> "CO2", percentage |-> 35],
            [component |-> "H2O", percentage |-> 15], [component |-> "CH4", percentage |-> 5] >>
    ELSE IF temperature < 280
    THEN << [component |-> "H2O", percentage |-> 40], [component |-> "N2", percentage |-> 30],
            [component |-> "CO2", percentage |-> 20], [component |-> "O2", percentage |-> 5] >>
    ELSE << [component |-> "CO2", percentage |-> 50], [component |-> "H2O", percentage |-> 25],
            [component |-> "N2", percentage |-> 15], [component |-> "SO2", percentage |-> 10] >>

\* generateAtmosphereData
generateAtmosphereData(temperature) ==
    IF temperature < 220
    THEN << [component |-> "N2", percentage |-> 45], [component |-> "CO2", percentage |-> 35],
            [component |-> "H2O", percentage |-> 15], [component |-> "CH4", percentage |-> 5] >>
    ELSE IF temperature < 280
    THEN << [component |-> "H2O", percentage |-> 40], [component |-> "N2", percentage |-> 30],
            [component |-> "CO2", percentage |-> 20], [component |-> "O2", percentage |-> 10] >>
    ELSE << [component |-> "CO2", percentage |-> 50], [component |-> "H2O", percentage |-> 25],
            [component |-> "N2", percentage |-> 15], [component |-> "SO2", percentage |-> 10] >>

\* The planetData object of generateExoplanet (the fields drawn from the
\* record and the atmosphere mix; the random series are left out).
PlanetData(nasaPlanet) ==
    [name           |-> nasaPlanet.kepoi_name,
     color          |-> getPlanetColor(nasaPlanet.koi_teq),
     temperature    |-> nasaPlanet.koi_teq,
     atmosphereData |-> generateAtmosphereData(nasaPlanet.koi_teq)]

\* generateExoplanet after its 2 s timer: the oldest waiting call resumes
\* with the planetName it captured. availablePlanets does not change while a
\* call waits (a call needs a selection, hence a loaded universe).
DetailTimerFires ==
    /\ detailJobs # << >>
    /\ detailJobs' = Tail(detailJobs)
    /\ IF FindRecordFrom(availablePlanets, Head(detailJobs), 1) # None
       THEN /\ exoplanetData' =
                  Some(PlanetData(FindRecordFrom(availablePlanets, Head(detailJobs), 1)[1]))
            /\ lastToast' = "Exoplanet Found!"
       ELSE /\ lastToast' = "Planet Not Found"
            /\ UNCHANGED exoplanetData
    /\ isLoading' = FALSE
    /\ lastOp' = [op |-> "detailLoaded", arg |-> << >>]
    /\ prevSelected' = selectedPlanet
    /\ UNCHANGED loadVars
    /\ UNCHANGED viewVars
    /\ UNCHANGED <<nasaExoplanetsCache, loadPc, planetName, availablePlanets,
                   universePlanets, selectedPlanet, viewMode, searchQuery,
                   discoveredPlanets, uvSelectedPlanet>>

\* The "Back to Universe" button of the detailed view. UniverseViewer mounts
\* anew: its selectedPlanet starts undefined and its effect runs once.
BackToUniverse ==
    /\ viewMode = "detailed"
    /\ viewMode' = "universe"
    /\ uvSelectedPlanet' = HighlightedPlanet(universePlanets, searchQuery)
    /\ lastOp' = [op |-> "back", arg |-> << >>]
    /\ prevSelected' = selectedPlanet
    /\ UNCHANGED loadVars
    /\ UNCHANGED viewVars
    /\ UNCHANGED <<nasaExoplanetsCache, loadPc, planetName, exoplanetData, isLoading,
                   availablePlanets, universePlanets, selectedPlanet, searchQuery,
                   discoveredPlanets, lastToast, detailJobs>>

Next ==
    \/ \E data \in DataSets : \E heights \in RandomHeights(Len(data)) :
          FetchOk(data, heights)
    \/ FetchFail
    \/ \E i \in 1..MaxPlanets : GenerateRandomPlanet(i)
    \/ \E i \in 1..MaxPlanets : HandlePlanetClick(i)
    \/ \E query \in Strings(MaxQueryLen) : HandleSearch(query)
    \/ CloseOverlay
    \/ SwitchToDetailedView
    \/ DetailTimerFires
    \/ BackToUniverse

Spec == Init /\ [][Next]_vars

---------------------------------------------------------------------------
(* The scene generator alone: generateUniversePlanets applied to record     *)
(* lists longer than the session's, with no user in the picture.            *)

InitGen ==
    /\ nasaExoplanetsCache = None
    /\ loadPc = "done"
    /\ mountId = 1
    /\ pendingLoads = {}
    /\ requestsIssued = 0
    /\ planetName = << >>
    /\ exoplanetData = None
    /\ isLoading = FALSE
    /\ availablePlanets \in GenInputs
    /\ universePlanets = << >>
    /\ selectedPlanet = None
    /\ viewMode = "universe"
    /\ searchQuery = << >>
    /\ discoveredPlanets = {}
    /\ lastToast = ""
    /\ detailJobs = << >>
    /\ uvSelectedPlanet = None
    /\ lastOp = [op |-> "mount", arg |-> << >>]
    /\ prevSelected = None
    /\ camera = CameraAtMount
    /\ starfield = NoStarfield

\* One call generateUniversePlanets(availablePlanets).
\* lastOp.arg records the vertical offsets of the pass before, when there was one.
Generate(heights) ==
    /\ universePlanets' = generateUniversePlanets(availablePlanets, heights)
    /\ lastOp' = [op  |-> "generate",
                  arg |-> IF lastOp.op = "generate"
                          THEN [i \in 1..Len(universePlanets) |-> universePlanets[i].position.height]
                          ELSE << >>]
    /\ UNCHANGED loadVars
    /\ UNCHANGED viewVars
    /\ UNCHANGED <<nasaExoplanetsCache, loadPc, planetName, exoplanetData, isLoading,
                   availablePlanets, selectedPlanet, viewMode, searchQuery,
                   discoveredPlanets, lastToast, detailJobs, uvSelectedPlanet,
                   prevSelected>>

NextGen == \E heights \in RandomHeights(Min(Len(availablePlanets), SliceLimit)) : Generate(heights)

SpecGen == InitGen /\ [][NextGen]_vars

---------------------------------------------------------------------------
(* The detail lookup alone: a session in which the records are loaded, the
   i-th scene object was clicked and its overlay expanded, so that one
   generateExoplanet call waits on its timer. *)

InitDetail ==
    \E records \in GenInputs : \E i \in 1..Min(Len(records), SliceLimit) :
        /\ nasaExoplanetsCache = Some(records)
        /\ loadPc = "done"
        /\ mountId = 1
        /\ pendingLoads = {}
        /\ requestsIssued = 1
        /\ availablePlanets = records
        /\ universePlanets =
              generateUniversePlanets(records, [k \in 1..Min(Len(records), SliceLimit) |-> 74])
        /\ selectedPlanet = Some(WithDiscovery(universePlanets[i], FALSE))
        /\ planetName = universePlanets[i].name
        /\ discoveredPlanets = {universePlanets[i].id}
        /\ searchQuery = << >>
        /\ exoplanetData = None
        /\ isLoading = TRUE
        /\ viewMode = "detailed"
        /\ detailJobs = <<planetName>>
        /\ uvSelectedPlanet = None
        /\ lastToast = ""
        /\ lastOp = [op |-> "expand", arg |-> << >>]
        /\ prevSelected = selectedPlanet
        /\ camera = CameraAtMount
        /\ starfield = NoStarfield

NextDetail ==
    \/ DetailTimerFires
    \/ BackToUniverse

SpecDetail == InitDetail /\ [][NextDetail]_vars

---------------------------------------------------------------------------
(* The camera of the universe view: a loaded scene of two planets, clicks on
   planets and animation frames. *)

\* The scene of the camera specification: one planet whose camera distance is
\* 8 * radius and one whose camera distance is the floor of 10.
CameraScene == generateUniversePlanets(<<PoolRecord(1), PoolRecord(2)>>, <<74, -75>>)

InitCamera ==
    /\ nasaExoplanetsCache = Some(<<PoolRecord(1), PoolRecord(2)>>)
    /\ loadPc = "done"
    /\ mountId = 1
    /\ pendingLoads = {}
    /\ requestsIssued = 1
    /\ planetName = << >>
    /\ exoplanetData = None
    /\ isLoading = FALSE
    /\ availablePlanets = <<PoolRecord(1), PoolRecord(2)>>
    /\ universePlanets = CameraScene
    /\ selectedPlanet = None
    /\ viewMode = "universe"
    /\ searchQuery = << >>
    /\ discoveredPlanets = {}
    /\ lastToast = ""
    /\ detailJobs = << >>
    /\ uvSelectedPlanet = None
    /\ lastOp = [op |-> "fetchOk", arg |-> << >>]
    /\ prevSelected = None
    /\ camera = CameraAtMount
    /\ starfield = NoStarfield

\* A click on the i-th planet: the handlers, then the effect of
\* CameraController on the new targetPlanet (every click passes a new object).
ClickPlanet(i) ==
    /\ camera.started < MaxTransitions
    /\ PlanetClicked(i)
    /\ camera' = CameraEffect(camera, uvSelectedPlanet'[1])
    /\ UNCHANGED starfield

\* One animation frame: the queued animateCamera callbacks run.
Frame ==
    /\ camera.loops # << >>
    /\ camera' = CameraAfterFrame(camera)
    /\ lastOp' = [op |-> "frame", arg |-> << >>]
    /\ prevSelected' = selectedPlanet
    /\ UNCHANGED loadVars
    /\ UNCHANGED <<nasaExoplanetsCache, loadPc, planetName, exoplanetData, isLoading,
                   availablePlanets, universePlanets, selectedPlanet, viewMode,
                   searchQuery, discoveredPlanets, lastToast, detailJobs,
                   uvSelectedPlanet, starfield>>

NextCamera ==
    \/ \E i \in 1..Len(universePlanets) : ClickPlanet(i)
    \/ Frame

SpecCamera == InitCamera /\ [][NextCamera]_vars

\* The browser runs the callbacks of requestAnimationFrame at every frame.
SpecCameraLive == SpecCamera /\ WF_vars(Frame)

---------------------------------------------------------------------------
(* The starfield behind the detailed view: the canvas is mounted at one of the
   window sizes, animate runs once per frame, and the window is resized. *)

InitStars ==
    \E size \in WindowSizes :
      \E draws \in [1..NumStars(size[1], size[2]) -> StarDraws] :
        /\ nasaExoplanetsCache = Some(<<PoolRecord(1), PoolRecord(2)>>)
        /\ loadPc = "done"
        /\ mountId = 1
        /\ pendingLoads = {}
        /\ requestsIssued = 1
        /\ availablePlanets = <<PoolRecord(1), PoolRecord(2)>>
        /\ universePlanets = CameraScene
        /\ selectedPlanet = Some(WithDiscovery(CameraScene[1], FALSE))
        /\ planetName = CameraScene[1].name
        /\ discoveredPlanets = {CameraScene[1].id}
        /\ searchQuery = << >>
        /\ exoplanetData = None
        /\ isLoading = TRUE
        /\ viewMode = "detailed"
        /\ detailJobs = <<planetName>>
        /\ uvSelectedPlanet = None
        /\ lastToast = ""
        /\ lastOp = [op |-> "expand", arg |-> << >>]
        /\ prevSelected = selectedPlanet
        /\ camera = CameraAtMount
        /\ starfield = MountStarfield(size, draws)

\* One animation frame of the starfield.
StarTick ==
    /\ starfield.ticks < MaxStarTicks
    /\ starfield' = AnimateStars(starfield)
    /\ lastOp' = [op |-> "tick", arg |-> << >>]
    /\ prevSelected' = selectedPlanet
    /\ UNCHANGED loadVars
    /\ UNCHANGED <<nasaExoplanetsCache, loadPc, planetName, exoplanetData, isLoading,
                   availablePlanets, universePlanets, selectedPlanet, viewMode,
                   searchQuery, discoveredPlanets, lastToast, detailJobs,
                   uvSelectedPlanet, camera>>

\* The window takes another size.
Resize(size) ==
    /\ starfield.resizes < MaxResizes
    /\ size # <<starfield.width, starfield.height>>
    /\ starfield' = UpdateCanvasSize(starfield, size)
    /\ lastOp' = [op |-> "resize", arg |-> << >>]
    /\ prevSelected' = selectedPlanet
    /\ UNCHANGED loadVars
    /\ UNCHANGED <<nasaExoplanetsCache, loadPc, planetName, exoplanetData, isLoading,
                   availablePlanets, universePlanets, selectedPlanet, viewMode,
                   searchQuery, discoveredPlanets, lastToast, detailJobs,
                   uvSelectedPlanet, camera>>

NextStars ==
    \/ StarTick
    \/ \E size \in WindowSizes : Resize(size)

SpecStars == InitStars /\ [][NextStars]_vars

---------------------------------------------------------------------------
(* The data load across mounts: the Explorer page is mounted, left and mounted
   again while the module-level cache and the fetches already under way live
   on.  A state update of an instance no longer mounted is dropped. *)

\* Mutant: the cache is never consulted.
CacheHit_Never == FALSE

\* if (nasaExoplanetsCache): any array, the empty one too, is truthy.
CacheHit == nasaExoplanetsCache # None

\* A new Explorer instance is mounted in place of the one before: its state is
\* the initial state, its mount effect calls loadNASAData, which returns the
\* cached records or starts a fetch, and the effect on [availablePlanets]
\* generates the scene from a non-empty list.
Remount(heights) ==
    /\ mountId < MaxMounts
    /\ mountId' = mountId + 1
    /\ IF CacheHit
       THEN /\ availablePlanets' = nasaExoplanetsCache[1]
            /\ universePlanets' =
                  IF Len(nasaExoplanetsCache[1]) > 0
                  THEN generateUniversePlanets(nasaExoplanetsCache[1], heights)
                  ELSE << >>
            /\ loadPc' = "done"
            /\ UNCHANGED <<pendingLoads, requestsIssued>>
       ELSE /\ availablePlanets' = << >>
            /\ universePlanets' = << >>
            /\ loadPc' = "fetching"
            /\ pendingLoads' = pendingLoads \cup {mountId + 1}
            /\ requestsIssued' = requestsIssued + 1
    /\ planetName' = << >>
    /\ exoplanetData' = None
    /\ isLoading' = FALSE
    /\ selectedPlanet' = None
    /\ viewMode' = "universe"
    /\ searchQuery' = << >>
    /\ discoveredPlanets' = {}
    /\ detailJobs' = << >>
    /\ uvSelectedPlanet' = None
    /\ lastOp' = [op |-> "remount", arg |-> << >>]
    /\ prevSelected' = None
    /\ UNCHANGED <<nasaExoplanetsCache, lastToast>>
    /\ UNCHANGED viewVars

\* The fetch of an instance no longer mounted resolves and decodes: the cache
\* is written, setAvailablePlanets goes to the unmounted instance.
StaleFetchOk(k, data) ==
    /\ k \in pendingLoads
    /\ k # mountId
    /\ pendingLoads' = pendingLoads \ {k}
    /\ nasaExoplanetsCache' = CacheAfterResolve(data)
    /\ lastOp' = [op |-> "staleFetchOk", arg |-> data]
    /\ prevSelected' = selectedPlanet
    /\ UNCHANGED <<loadPc, planetName, exoplanetData, isLoading, availablePlanets,
                   universePlanets, selectedPlanet, viewMode, searchQuery,
                   discoveredPlanets, lastToast, detailJobs, uvSelectedPlanet,
                   mountId, requestsIssued>>
    /\ UNCHANGED viewVars

\* The fetch of an instance no longer mounted fails: the toast is shown by the
\* toaster of the application.
StaleFetchFail(k) ==
    /\ k \in pendingLoads
    /\ k # mountId
    /\ pendingLoads' = pendingLoads \ {k}
    /\ lastToast' = "Data Loading Error"
    /\ lastOp' = [op |-> "staleFetchFail", arg |-> << >>]
    /\ prevSelected' = selectedPlanet
    /\ UNCHANGED <<nasaExoplanetsCache, loadPc, planetName, exoplanetData, isLoading,
                   availablePlanets, universePlanets, selectedPlanet, viewMode,
                   searchQuery, discoveredPlanets, detailJobs, uvSelectedPlanet,
                   mountId, requestsIssued>>
    /\ UNCHANGED viewVars

NextLoad ==
    \/ \E heights \in RandomHeights(IF CacheHit THEN Len(nasaExoplanetsCache[1]) ELSE 0) :
          Remount(heights)
    \/ \E data \in DataSets : \E heights \in RandomHeights(Len(data)) :
          FetchOk(data, heights)
    \/ FetchFail
    \/ \E k \in 1..MaxMounts : \E data \in DataSets : StaleFetchOk(k, data)
    \/ \E k \in 1..MaxMounts : StaleFetchFail(k)

SpecLoad == Init /\ [][NextLoad]_vars

---------------------------------------------------------------------------
(* Vocabulary of the properties, stated without the model's operators *)

\* Two characters that differ at most in case.
SameLetter(a, b) == a = b \/ {a, b} = {"K", "k"}

\* query occurs in name as a contiguous substring, case ignored.
OccursIgnoringCase(query, name) ==
    \E off \in 0..(Len(name) - Len(query)) :
        \A k \in 1..Len(query) : SameLetter(name[off + k], query[k])

\* Indices of the scene objects whose name the current search string matches.
MatchingIndices ==
    {i \in 1..Len(universePlanets) :
        OccursIgnoringCase(searchQuery, universePlanets[i].name)}

\* The least element of a non-empty set of indices.
Least(S) == CHOOSE i \in S : \A j \in S : i <= j

\* The last handler was a selection event: a click, or a search with a
\* non-empty string that matches some object name.
LastWasSelection ==
    \/ lastOp.op = "click"
    \/ lastOp.op = "search" /\ searchQuery # << >> /\ MatchingIndices # {}

\* The last handler was a search with an empty string or one matching no name.
LastWasFailedSearch ==
    lastOp.op = "search" /\ (searchQuery = << >> \/ MatchingIndices = {})

\* The overlay is rendered: universe view and a selected planet.
OverlayShown == viewMode = "universe" /\ selectedPlanet # None

---------------------------------------------------------------------------
(* C1..C7: selection and discovery *)

\* C1: the discovered set is monotonic: an identifier in the set before any
\* step (click, search, randomize, close, expand, back, load, timer) is in
\* it after the step.
\* The same holds of the discovered flag UniverseViewer renders each object with.
C1_DiscoveredMonotonic ==
    [][/\ discoveredPlanets \subseteq discoveredPlanets'
       /\ \A i \in 1..Len(universePlanets) :
             (universePlanets' = universePlanets /\ PlanetsWithDiscovery[i].discovered)
                 => PlanetsWithDiscovery'[i].discovered]_vars

\* C1 witness: an identifier was discovered, and the user has since been to
\* the detailed view and back.
C1_Witness == discoveredPlanets # {} /\ lastOp.op = "back"

\* C2 (as claimed): whenever an object is the selected object, its identifier
\* is in the discovered set.
C2_SelectedIsDiscovered ==
    selectedPlanet # None => selectedPlanet[1].id \in discoveredPlanets

\* C3: a click on an object whose identifier is already in the discovered
\* set leaves the discovered set as it was (same members, same size).
C3_SelectIdempotent ==
    [][\A i \in 1..MaxPlanets :
          (HandlePlanetClick(i) /\ universePlanets[i].id \in discoveredPlanets)
              => /\ discoveredPlanets' = discoveredPlanets
                 /\ Cardinality(discoveredPlanets') = Cardinality(discoveredPlanets)]_vars

\* C3 witness: the object clicked was rendered as discovered (its identifier
\* was in the set before the click) and was the selected object already.
C3_Witness ==
    /\ lastOp.op = "click"
    /\ selectedPlanet # None
    /\ selectedPlanet[1].discovered
    /\ prevSelected # None
    /\ prevSelected[1].id = lastOp.arg

\* C4: after a search whose string is empty or matches no object name, the
\* selection is what it was before the search.
C4_FailedSearchKeepsSelection == LastWasFailedSearch => selectedPlanet = prevSelected

\* C4 witness: a non-empty search string matched nothing while an object was
\* selected.
C4_Witness ==
    /\ LastWasFailedSearch
    /\ searchQuery # << >>
    /\ prevSelected # None

\* C5: a selection event in a state with a selected object leaves the session
\* with the new object selected: the clicked one, or one the search matches.
C5_DirectReselect ==
    (LastWasSelection /\ prevSelected # None) =>
        /\ selectedPlanet # None
        /\ lastOp.op = "click" => selectedPlanet[1].id = lastOp.arg
        /\ lastOp.op = "search" => OccursIgnoringCase(searchQuery, selectedPlanet[1].name)

\* C5 witness: a search moved the selection from one object to another.
C5_Witness ==
    /\ LastWasSelection
    /\ lastOp.op = "search"
    /\ prevSelected # None
    /\ selectedPlanet # None
    /\ prevSelected[1].id # selectedPlanet[1].id

\* C6: closing the overlay leaves no object selected and the overlay not
\* shown, and a step from Unselected to Selected is a click or a matching
\* search.
C6_CloseUnselects ==
    /\ [](lastOp.op = "close" => selectedPlanet = None /\ ~OverlayShown)
    /\ [][(selectedPlanet = None /\ selectedPlanet' # None) => LastWasSelection']_vars

\* C6 witness: the overlay of a selected object was closed.
C6_Witness == lastOp.op = "close" /\ prevSelected # None /\ selectedPlanet = None

\* C7: a search with a non-empty string that matches some names selects the
\* first matching object in list order, which is also the highlighted one.
C7_SearchSelectsFirstMatch ==
    (lastOp.op = "search" /\ searchQuery # << >> /\ MatchingIndices # {}) =>
        /\ selectedPlanet = Some(universePlanets[Least(MatchingIndices)])
        /\ HighlightedPlanet(universePlanets, searchQuery) = selectedPlanet

\* C7 witness: two objects matched, the match needed the case ignored, and
\* the first one was selected.
C7_Witness ==
    /\ lastOp.op = "search"
    /\ Cardinality(MatchingIndices) >= 2
    /\ selectedPlanet = Some(universePlanets[1])
    /\ ~ includes(universePlanets[1].name, searchQuery)

---------------------------------------------------------------------------
(* C8..C10: scene generation *)

\* C8: generation yields min(N, 50) scene objects, the i-th carrying the
\* identifier of the i-th source record.
C8_GenerateTruncates ==
    lastOp.op = "generate" =>
        /\ Len(universePlanets) = IF Len(availablePlanets) < 50 THEN Len(availablePlanets) ELSE 50
        /\ \A i \in 1..Len(universePlanets) :
              universePlanets[i].id = availablePlanets[i].kepoi_name

\* C8 witness: a list of more than 50 records was cut to 50 scene objects.
C8_Witness ==
    /\ lastOp.op = "generate"
    /\ Len(availablePlanets) > 50
    /\ Len(universePlanets) = 50

\* C9: no two scene objects of a generated scene share an identifier, and the
\* identifiers are those of the source records they were made from.
C9_UniqueIds ==
    lastOp.op = "generate" =>
        /\ \A i, j \in 1..Len(universePlanets) :
              universePlanets[i].id = universePlanets[j].id => i = j
        /\ {universePlanets[i].id : i \in 1..Len(universePlanets)}
              = {availablePlanets[i].kepoi_name : i \in 1..Len(universePlanets)}

\* C9 witness: a scene of 50 objects was generated.
C9_Witness == lastOp.op = "generate" /\ Len(universePlanets) >= 50

\* The label of the first band of `bands` (pairs <<threshold, label>>) whose
\* threshold exceeds t, and `last` when there is none.
BandLabel(t, bands, last) ==
    IF {k \in 1..Len(bands) : t < bands[k][1]} = {} THEN last
    ELSE bands[Least({k \in 1..Len(bands) : t < bands[k][1]})][2]

\* The bands as the claim words them.
ClaimedBands ==
    << <<200, "blue">>, <<260, "cyan">>, <<290, "green">>, <<320, "yellow-green">>,
       <<350, "yellow">>, <<400, "orange">>, <<500, "red-orange">> >>

\* The bands with the labels the code returns.
CodeBands ==
    << <<200, "blue">>, <<260, "cyan">>, <<290, "green">>, <<320, "yellowgreen">>,
       <<350, "yellow">>, <<400, "orange">>, <<500, "redorange">> >>

\* C10 (as claimed): every scene object's color is the claimed label of its
\* temperature.
C10_ColorAsClaimed ==
    \A i \in 1..Len(universePlanets) :
        universePlanets[i].color = BandLabel(universePlanets[i].temperature, ClaimedBands, "red")

\* C10 (amended): every scene object's color is the label of the first band
\* its temperature falls under, with the labels "yellowgreen" and "redorange".
C10_ColorByFirstThreshold ==
    \A i \in 1..Len(universePlanets) :
        universePlanets[i].color = BandLabel(universePlanets[i].temperature, CodeBands, "red")

\* C10 witness: a scene with an object at exactly 290 K and one just below.
C10_Witness ==
    \E i, j \in 1..Len(universePlanets) :
        /\ universePlanets[i].temperature = 289 /\ universePlanets[i].color = "green"
        /\ universePlanets[j].temperature = 290 /\ universePlanets[j].color = "yellowgreen"

---------------------------------------------------------------------------
(* C11..C16: colors at the thresholds, placement, display radius *)

\* C11: each color band is closed on its lower bound: an object at exactly
\* 200 K is "cyan" and not "blue", one at 260 K is "green" and not "cyan", one
\* at 500 K is "red", and one at 150 K is "blue".
C11_BoundariesClosedBelow ==
    \A i \in 1..Len(universePlanets) :
        /\ universePlanets[i].temperature = 150 => universePlanets[i].color = "blue"
        /\ universePlanets[i].temperature = 200 => universePlanets[i].color = "cyan"
        /\ universePlanets[i].temperature = 260 => universePlanets[i].color = "green"
        /\ universePlanets[i].temperature = 500 => universePlanets[i].color = "red"

\* C11 witness: a scene with an object at exactly 260 K, colored "green", next
\* to one at 259 K, colored "cyan".
C11_Witness ==
    \E i, j \in 1..Len(universePlanets) :
        /\ universePlanets[i].temperature = 259 /\ universePlanets[i].color = "cyan"
        /\ universePlanets[j].temperature = 260 /\ universePlanets[j].color = "green"

\* C13: the ring radius of the object at 0-based index i is
\* 112.5 + (i mod 7) * 93.75 (in hundredths here), so a scene has at most seven
\* distinct ring radii, exactly seven from seven objects on, and two indices
\* congruent modulo 7 share their ring radius.
C13_SevenRings ==
    lastOp.op = "generate" =>
        /\ \A i \in 1..Len(universePlanets) :
              universePlanets[i].position.ring = 11250 + ((i - 1) % 7) * 9375
        /\ \A i, j \in 1..Len(universePlanets) :
              (i - j) % 7 = 0 =>
                  universePlanets[i].position.ring = universePlanets[j].position.ring
        /\ Cardinality({universePlanets[i].position.ring : i \in 1..Len(universePlanets)})
              = IF Len(universePlanets) < 7 THEN Len(universePlanets) ELSE 7

\* C13 witness: a scene in which the objects at indices 0 and 7 share the
\* innermost ring.
C13_Witness ==
    /\ lastOp.op = "generate"
    /\ Len(universePlanets) >= 8
    /\ universePlanets[1].position.ring = 11250
    /\ universePlanets[8].position.ring = 11250

\* C16: the display radius is the source radius clamped to [0.5, 3.0] (50 and
\* 300 in hundredths): it lies in the interval, equals the source radius when
\* that lies in the interval, is the nearer limit otherwise, and never
\* decreases when the source radius grows.
C16_DisplayRadiusClamped ==
    lastOp.op = "generate" =>
        \A i \in 1..Len(universePlanets) :
            /\ universePlanets[i].radius >= 50
            /\ universePlanets[i].radius <= 300
            /\ (availablePlanets[i].koi_prad >= 50 /\ availablePlanets[i].koi_prad <= 300)
                  => universePlanets[i].radius = availablePlanets[i].koi_prad
            /\ availablePlanets[i].koi_prad < 50 => universePlanets[i].radius = 50
            /\ availablePlanets[i].koi_prad > 300 => universePlanets[i].radius = 300
            /\ \A j \in 1..Len(universePlanets) :
                  availablePlanets[j].koi_prad <= availablePlanets[i].koi_prad
                      => universePlanets[j].radius <= universePlanets[i].radius

\* C16 witness: a scene with a source radius below the interval, one inside
\* it and one above it.
C16_Witness ==
    /\ lastOp.op = "generate"
    /\ \E i, j, k \in 1..Len(universePlanets) :
          /\ availablePlanets[i].koi_prad < 50 /\ universePlanets[i].radius = 50
          /\ availablePlanets[j].koi_prad = 111 /\ universePlanets[j].radius = 111
          /\ availablePlanets[k].koi_prad > 300 /\ universePlanets[k].radius = 300

\* C12 (as claimed): the placement angle of the object at 0-based index i of
\* the N objects generated is (i / N) * 12 pi, N being the number of objects
\* of the scene.
C12_AngleIsFractionOfCount ==
    lastOp.op = "generate" =>
        \A i \in 1..Len(universePlanets) :
            PlacementAngle(universePlanets[i].position).num * Len(universePlanets)
                = (i - 1) * 12 * PlacementAngle(universePlanets[i].position).den

\* C14 (as claimed): a second generation pass over the same record list gives
\* every index the same three position components as the pass before.
C14_PositionRepeats ==
    [][(lastOp.op = "generate" /\ lastOp'.op = "generate") =>
          /\ Len(universePlanets') = Len(universePlanets)
          /\ \A i \in 1..Len(universePlanets) :
                universePlanets'[i].position = universePlanets[i].position]_vars

\* C14 (amended): a second generation pass over the same record list gives
\* every index the same angle and the same ring radius, hence the same x and z
\* components, as the pass before; the vertical offset is drawn anew.
C14_HorizontalPlacementRepeats ==
    [][(lastOp.op = "generate" /\ lastOp'.op = "generate") =>
          /\ Len(universePlanets') = Len(universePlanets)
          /\ \A i \in 1..Len(universePlanets) :
                /\ PlacementAngle(universePlanets'[i].position)
                      = PlacementAngle(universePlanets[i].position)
                /\ universePlanets'[i].position.ring = universePlanets[i].position.ring]_vars

\* C14 witness: a second pass over the same list has drawn a vertical offset
\* different from that of the pass before.
C14_Witness ==
    /\ lastOp.op = "generate"
    /\ Len(lastOp.arg) >= 8
    /\ Len(universePlanets) = Len(lastOp.arg)
    /\ universePlanets[8].position.height # lastOp.arg[8]

\* The record list with the radius and the temperature of each record replaced
\* by those of the record mirrored in the list: same length, same names.
WithOtherMeasurements(records) ==
    [i \in 1..Len(records) |->
        [kepoi_name |-> records[i].kepoi_name,
         koi_prad   |-> records[Len(records) + 1 - i].koi_prad,
         koi_teq    |-> records[Len(records) + 1 - i].koi_teq]]

\* The scene generated from the list with the other measurements, drawing the
\* same vertical offsets as the scene on display.
OtherScene ==
    generateUniversePlanets(
        WithOtherMeasurements(availablePlanets),
        [i \in 1..Len(universePlanets) |-> universePlanets[i].position.height])

\* C15: two record lists of the same length that differ only in temperature
\* and radius (hence in color), generated with the same vertical offsets, give
\* every index the same position.
C15_PositionIgnoresMeasurements ==
    lastOp.op = "generate" =>
        /\ Len(OtherScene) = Len(universePlanets)
        /\ \A i \in 1..Len(universePlanets) :
              OtherScene[i].position = universePlanets[i].position

\* C15 witness: the two scenes differ at index 0 in temperature, display
\* radius and color.
C15_Witness ==
    /\ lastOp.op = "generate"
    /\ Len(universePlanets) >= 2
    /\ OtherScene[1].temperature # universePlanets[1].temperature
    /\ OtherScene[1].radius # universePlanets[1].radius
    /\ OtherScene[1].color # universePlanets[1].color

---------------------------------------------------------------------------
(* C17, C18: textures *)

\* The sum of the character codes of the first n characters of an id.
RECURSIVE CodeSum(_, _)
CodeSum(id, n) == IF n = 0 THEN 0 ELSE CodeSum(id, n - 1) + CharCode(id[n])

\* The temperatures that occur in generated scenes.
Temperatures == 0..(50 * MaxBaseTemp + MaxGenLen)

\* The texture families.
Families ==
    {"ice-blue", "cyan-cold", "green-temperate", "yellow-warm", "orange-hot", "red-scorching"}

C18_ColorDecidesTextureFamily ==
    \A i \in 1..Len(universePlanets) : \A t \in Temperatures :
        getPlanetColor(t) = universePlanets[i].color =>
            /\ TextureFamily(t) = PlanetTexture(universePlanets[i]).family
            /\ PreviewTextureForTemperature(t).family = PreviewTexture(universePlanets[i]).family

---------------------------------------------------------------------------
(* C19, C20: the process-wide cache *)

\* C19: once a load has succeeded the cache holds its result, and a load call
\* made while the cache is filled returns the cached records, issues no
\* network request and leaves the cache as it is.
C19_CachedLoad ==
    /\ [](lastOp.op = "fetchOk" => nasaExoplanetsCache = Some(availablePlanets))
    /\ [][(lastOp'.op = "remount" /\ nasaExoplanetsCache # None) =>
             /\ availablePlanets' = nasaExoplanetsCache[1]
             /\ requestsIssued' = requestsIssued
             /\ pendingLoads' = pendingLoads
             /\ nasaExoplanetsCache' = nasaExoplanetsCache]_vars

\* C19 witness: a later mount shows the cached, non-empty record list, and the
\* process has made one network request.
C19_Witness ==
    /\ lastOp.op = "remount"
    /\ mountId >= 2
    /\ nasaExoplanetsCache # None
    /\ Len(availablePlanets) > 0
    /\ nasaExoplanetsCache = Some(availablePlanets)
    /\ Len(universePlanets) = Len(availablePlanets)
    /\ requestsIssued = 1

\* C20: a load call made while the cache is empty issues its own network
\* request, other calls being in flight or not, and every call that resolves
\* writes its own result into the cache.
C20_NoCoalescing ==
    /\ [][(lastOp'.op = "remount" /\ nasaExoplanetsCache = None) =>
             /\ requestsIssued' = requestsIssued + 1
             /\ Cardinality(pendingLoads') = Cardinality(pendingLoads) + 1]_vars
    /\ [](lastOp.op = "staleFetchOk" => nasaExoplanetsCache = Some(lastOp.arg))
    /\ [](lastOp.op = "fetchOk" => nasaExoplanetsCache = Some(availablePlanets))

\* C20 witness: two calls were in flight together; the call of the mounted
\* instance resolved first, the other then wrote a different result into the
\* cache.
C20_Witness ==
    /\ lastOp.op = "staleFetchOk"
    /\ requestsIssued >= 2
    /\ loadPc = "done"
    /\ Len(availablePlanets) > 0
    /\ nasaExoplanetsCache # Some(availablePlanets)
    /\ nasaExoplanetsCache = Some(lastOp.arg)

---------------------------------------------------------------------------
(* C21, C26..C29: the session *)

\* C21: a failed dataset fetch shows the "Data Loading Error" notification,
\* ends the load without another request, leaves the cache empty and the record
\* list and the scene as they were, and the page goes on taking user input.
C21_FetchFailureSurfaced ==
    /\ [](lastOp.op = "fetchFail" =>
             /\ lastToast = "Data Loading Error"
             /\ loadPc = "done"
             /\ pendingLoads = {}
             /\ requestsIssued = 1
             /\ nasaExoplanetsCache = None
             /\ availablePlanets = << >>
             /\ universePlanets = << >>
             /\ ENABLED HandleSearch(<<"K">>))
    /\ [][lastOp'.op = "fetchFail" =>
             /\ nasaExoplanetsCache' = nasaExoplanetsCache
             /\ availablePlanets' = availablePlanets
             /\ universePlanets' = universePlanets
             /\ requestsIssued' = requestsIssued]_vars
    /\ [][lastOp.op = "fetchFail" => requestsIssued' = requestsIssued]_vars

\* C21 witness: the fetch failed, and the page has since handled a search.
C21_Witness ==
    /\ lastToast = "Data Loading Error"
    /\ lastOp.op = "search"
    /\ searchQuery = <<"K">>
    /\ nasaExoplanetsCache = None
    /\ requestsIssued = 1

\* C26 (as claimed): while the overlay shows a selected object, the object
\* held by the universe viewer as the camera's target is that same object.
C26_CameraTargetIsSelected ==
    (viewMode = "universe" /\ selectedPlanet # None) =>
        /\ uvSelectedPlanet # None
        /\ uvSelectedPlanet[1].id = selectedPlanet[1].id

\* C27: once generated, the scene is changed by no later step, so no position
\* is drawn again, and the position stored in the selected object is that of
\* the scene object with its identifier.
C27_PositionsFixed ==
    /\ [][universePlanets # << >> => universePlanets' = universePlanets]_vars
    /\ [](selectedPlanet # None =>
             \E i \in 1..Len(universePlanets) :
                 /\ universePlanets[i].id = selectedPlanet[1].id
                 /\ universePlanets[i].position = selectedPlanet[1].position)

\* C27 witness: a clicked object is still selected after a visit to the
\* detailed view, with the position of its scene object.
C27_Witness ==
    /\ lastOp.op = "back"
    /\ selectedPlanet # None
    /\ Len(universePlanets) = 2
    /\ selectedPlanet[1].id = universePlanets[2].id
    /\ selectedPlanet[1].position = universePlanets[2].position
    /\ selectedPlanet[1].id \in discoveredPlanets

\* C28: the view mode is one of "universe" and "detailed", the detailed view
\* is entered only with an object selected, and an object is selected in every
\* state of the detailed view.
C28_DetailedNeedsSelection ==
    /\ [](viewMode \in {"universe", "detailed"})
    /\ [][(viewMode = "universe" /\ viewMode' = "detailed") => selectedPlanet # None]_vars
    /\ [](viewMode = "detailed" => selectedPlanet # None)

\* C28 witness: the detailed view, entered by expand, with its object selected.
C28_Witness ==
    /\ viewMode = "detailed"
    /\ lastOp.op = "expand"
    /\ selectedPlanet # None
    /\ prevSelected = selectedPlanet

\* C29 (as claimed): in the detailed view, with no detail load in flight and
\* detail data present, the detail data carry the name of the selected object.
C29_DetailMatchesSelection ==
    (/\ viewMode = "detailed"
     /\ ~ isLoading
     /\ detailJobs = << >>
     /\ exoplanetData # None
     /\ selectedPlanet # None) =>
        exoplanetData[1].name = selectedPlanet[1].name

\* The percentages of the first n components of a mix, added up.
RECURSIVE PercentageSum(_, _)
PercentageSum(mix, n) ==
    IF n = 0 THEN 0 ELSE PercentageSum(mix, n - 1) + mix[n].percentage

\* C22: the atmosphere mix of the detail data has four components, distinct,
\* whose percentages sum to exactly 100, whatever the temperature and hence in
\* each of the regimes below 220 K, below 280 K and from 280 K on.
C22_AtmosphereSumsTo100 ==
    exoplanetData # None =>
        /\ Len(exoplanetData[1].atmosphereData) = 4
        /\ Cardinality({exoplanetData[1].atmosphereData[k].component : k \in 1..4}) = 4
        /\ PercentageSum(exoplanetData[1].atmosphereData, 4) = 100
        /\ exoplanetData[1].atmosphereData[1].component =
              IF exoplanetData[1].temperature < 220 THEN "N2"
              ELSE IF exoplanetData[1].temperature < 280 THEN "H2O"
              ELSE "CO2"

\* C22 witness: detail data loaded for a planet at exactly 220 K, the first
\* temperature of the middle regime.
C22_Witness ==
    /\ lastOp.op = "detailLoaded"
    /\ exoplanetData # None
    /\ exoplanetData[1].temperature = 220
    /\ exoplanetData[1].atmosphereData[1] = [component |-> "H2O", percentage |-> 40]

---------------------------------------------------------------------------
(* C23, C24, C30: the camera *)

\* The planet the universe viewer holds as the camera's target.
TargetPlanet == uvSelectedPlanet[1]

\* C23: every call of a transition's callback advances its progress by 0.02;
\* the fiftieth call ends the transition, leaving the look-at target at the
\* selected object's position and the camera at that position moved along z
\* by max(10, 8 * radius); no callback is queued once the transitions have
\* ended, and a transition under way does end.
C23_TransitionTerminates ==
    /\ [](\A k \in 1..Len(camera.loops) :
             /\ camera.loops[k].progress \in {2 * n : n \in 1..49}
             /\ camera.loops[k].progress < 100)
    /\ [][lastOp'.op = "frame" =>
             /\ \A k \in 1..Len(camera'.loops) :
                   \E j \in 1..Len(camera.loops) :
                       /\ camera'.loops[k].id = camera.loops[j].id
                       /\ camera'.loops[k].progress = camera.loops[j].progress + 2
             /\ \A j \in 1..Len(camera.loops) :
                   camera.loops[j].progress < 98 => Len(camera'.loops) > 0]_vars
    /\ []((camera.loops = << >> /\ uvSelectedPlanet # None) =>
             /\ camera.target = [base |-> TargetPlanet.position, dz |-> 0]
             /\ camera.position =
                   [base |-> TargetPlanet.position,
                    dz   |-> IF 8 * TargetPlanet.radius > 1000
                             THEN 8 * TargetPlanet.radius ELSE 1000]
             /\ ~ ENABLED Frame)
    /\ (camera.loops # << >>) ~> (camera.loops = << >>)

\* C23 witness: a single transition has ended on its fiftieth call, the camera
\* resting at the floor distance of 10 from the planet of radius 0.5.
C23_Witness ==
    /\ lastOp.op = "frame"
    /\ camera.started = 1
    /\ camera.loops = << >>
    /\ TargetPlanet.radius = 50
    /\ camera.position = [base |-> TargetPlanet.position, dz |-> 1000]
    /\ camera.target = [base |-> TargetPlanet.position, dz |-> 0]

\* C24: a transition started while another is under way starts from the
\* camera position and look-at target of that moment, and once the
\* transitions have ended the camera rests at the target of the object
\* selected last.
C24_RestartsFromCurrent ==
    /\ [][lastOp'.op = "click" =>
             /\ camera'.loops[Len(camera'.loops)].startPosition = camera.position
             /\ camera'.loops[Len(camera'.loops)].startTarget = camera.target
             /\ camera'.loops[Len(camera'.loops)].id = uvSelectedPlanet'[1].id]_vars
    /\ []((camera.loops = << >> /\ uvSelectedPlanet # None) =>
             /\ camera.target = [base |-> TargetPlanet.position, dz |-> 0]
             /\ camera.position.base = TargetPlanet.position)
    /\ <>[](camera.loops = << >>)

\* C24 witness: the second planet was clicked when the transition to the first
\* was half way, and the new transition starts from that half-way position.
C24_Witness ==
    /\ lastOp.op = "click"
    /\ Len(camera.loops) = 2
    /\ camera.loops[1].id = universePlanets[1].id
    /\ camera.loops[1].progress = 50
    /\ camera.loops[2].id = universePlanets[2].id
    /\ camera.loops[2].startPosition =
          Lerp(CameraAtMount.position, camera.loops[1].cameraTarget, 50)
    /\ camera.loops[2].startTarget =
          Lerp(CameraAtMount.target, camera.loops[1].targetPosition, 50)

\* C30 (as claimed): in no step do the callbacks of two transitions with
\* different targets both write the camera.
C30_OneTransitionWrites ==
    Cardinality({camera.wrote[k] : k \in 1..Len(camera.wrote)}) <= 1

---------------------------------------------------------------------------
\* C25: on each tick a star's coordinate past width + 10 (height + 10) becomes
\* -10 and one below -10 becomes width + 10 (height + 10), so after the tick x
\* lies in [-10, width + 10] and y in [-10, height + 10]; the tick changes
\* only x and y of a star and keeps its velocity, size, brightness and
\* twinkle parameters, and it keeps the number of stars.
C25_StarsWrap ==
    [][starfield'.ticks = starfield.ticks + 1 =>
         /\ Len(starfield'.stars) = Len(starfield.stars)
         /\ \A i \in 1..Len(starfield.stars) :
              LET s == starfield.stars[i]
                  t == starfield'.stars[i]
                  nx == s.x + s.velocityX
                  ny == s.y + s.velocityY
                  right == Px(starfield'.width + Margin)
                  bottom == Px(starfield'.height + Margin)
                  edge == Px(-Margin)
              IN  /\ nx > right => t.x = edge
                  /\ nx < edge => t.x = right
                  /\ nx >= edge /\ nx <= right => t.x = nx
                  /\ ny > bottom => t.y = edge
                  /\ ny < edge => t.y = bottom
                  /\ ny >= edge /\ ny <= bottom => t.y = ny
                  /\ edge <= t.x /\ t.x <= right
                  /\ edge <= t.y /\ t.y <= bottom
                  /\ [t EXCEPT !.x = s.x, !.y = s.y] = s]_vars

\* C25 witness: after a tick, stars have crossed each of the four edges, one
\* of them after the window was made smaller.
C25_Witness ==
    /\ lastOp.op = "tick"
    /\ starfield.resizes = 1
    /\ starfield.wraps = {"xHigh", "xLow", "yHigh", "yLow"}
    /\ \E i \in 1..Len(starfield.stars) : starfield.stars[i].x = Px(-Margin)

============================================================================
